---- MODULE Spec2Model ----
(***************************************************************************)
(* Model of the SellerBuyerPattern analytics scripts:                      *)
(*   app.py                   buy/sell pressure, imbalance, volume shock   *)
(*   prediction/model.py      lag features + random-forest forecaster      *)
(*   prediction/nbeats_model.py  lag features + LSTM forecaster            *)
(*   main.py                  SMA, EMA, RSI, MACD of the chart viewer      *)
(* A table (pandas DataFrame) is a record of its column order, its index   *)
(* and one sequence of cells per column.  A cell is an exact rational      *)
(* <<n, d>> or NaN; pandas' float64 arithmetic is exact on the small       *)
(* integers used here, so exact rationals give the same comparisons.       *)
(***************************************************************************)
EXTENDS Integers, Sequences, FiniteSets, TLC

VARIABLES prog, pc, bars, df, lags, split, model, y_pred, err, hist

vars == <<prog, pc, bars, df, lags, split, model, y_pred, err, hist>>

----------------------------------------------------------------------------
(* Bounds of the model *)

MaxBars == 4
MaxLags == 2
MaxExtra == 1

(* Program constants *)

VolumeWindow == 20
ShockFactor == 2
MA50Window == 50
SmaWindow == 20
EmaSpan == 20
RsiWindow == 14
MacdFast == 12
MacdSlow == 26
SignalSpan == 9

----------------------------------------------------------------------------
(* Cells: float64 values as exact rationals, NaN, +inf = <<1,0>>, -inf = <<-1,0>> *)

NaN == << >>

Num(n) == <<n, 1>>

Abs(n) == IF n < 0 THEN -n ELSE n

RECURSIVE GCD(_, _)
GCD(a, b) == IF b = 0 THEN a ELSE GCD(b, a % b)

Rat(n, d) ==
    IF d = 0
    THEN (IF n = 0 THEN NaN ELSE IF n > 0 THEN <<1, 0>> ELSE <<-1, 0>>)
    ELSE LET s == IF d < 0 THEN -1 ELSE 1
             g == GCD(Abs(n), Abs(d))
         IN  <<(s * n) \div g, (s * d) \div g>>

IsNaN(c) == c = NaN

(* sums are taken over the least common denominator, which keeps the *)
(* intermediate products small                                      *)
Add(a, b) == IF IsNaN(a) \/ IsNaN(b) THEN NaN
             ELSE IF a[2] = 0 \/ b[2] = 0
             THEN Rat(a[1] * b[2] + b[1] * a[2], a[2] * b[2])
             ELSE LET g == GCD(a[2], b[2])
                  IN  Rat(a[1] * (b[2] \div g) + b[1] * (a[2] \div g),
                          (a[2] \div g) * b[2])

Sub(a, b) == IF IsNaN(a) \/ IsNaN(b) THEN NaN
             ELSE Add(a, <<-b[1], b[2]>>)

Mul(a, b) == IF IsNaN(a) \/ IsNaN(b) THEN NaN
             ELSE Rat(a[1] * b[1], a[2] * b[2])

Div(a, b) == IF IsNaN(a) \/ IsNaN(b) THEN NaN
             ELSE Rat(a[1] * b[2], a[2] * b[1])

(* Comparisons with NaN are False, as in IEEE 754 / numpy *)
GT(a, b) == ~IsNaN(a) /\ ~IsNaN(b) /\ a[1] * b[2] > b[1] * a[2]

LT(a, b) == GT(b, a)

----------------------------------------------------------------------------
(* pandas Series operations, a Series being a sequence of cells *)

Diff(s) == [i \in 1..Len(s) |-> IF i = 1 THEN NaN ELSE Sub(s[i], s[i - 1])]

Shift(s, k) == [i \in 1..Len(s) |-> IF i <= k THEN NaN ELSE s[i - k]]

RECURSIVE SumRange(_, _, _)
SumRange(s, lo, hi) ==
    IF lo > hi THEN Num(0) ELSE Add(s[hi], SumRange(s, lo, hi - 1))

(* Series.rolling(window=w).mean(): min_periods = w, NaN until w observations *)
RollingMean(s, w) ==
    [i \in 1..Len(s) |->
        IF i < w \/ (\E j \in (i - w + 1)..i : IsNaN(s[j]))
        THEN NaN
        ELSE Div(SumRange(s, i - w + 1, i), Num(w))]

(* Series.where(cond, other): keep the value where cond holds *)
Where(s, cond, other) == [i \in 1..Len(s) |-> IF cond[i] THEN s[i] ELSE other]

SeriesGT(s, t) == [i \in 1..Len(s) |-> GT(s[i], t[i])]

GTScalar(s, k) == [i \in 1..Len(s) |-> GT(s[i], Num(k))]

LTScalar(s, k) == [i \in 1..Len(s) |-> LT(s[i], Num(k))]

SeriesAdd(s, t) == [i \in 1..Len(s) |-> Add(s[i], t[i])]

SeriesSub(s, t) == [i \in 1..Len(s) |-> Sub(s[i], t[i])]

SeriesDiv(s, t) == [i \in 1..Len(s) |-> Div(s[i], t[i])]

Scale(s, k) == [i \in 1..Len(s) |-> Mul(s[i], Num(k))]

FillNa(s, k) == [i \in 1..Len(s) |-> IF IsNaN(s[i]) THEN Num(k) ELSE s[i]]

Replace(s, old, new) == [i \in 1..Len(s) |-> IF s[i] = Num(old) THEN Num(new) ELSE s[i]]

AsInt(b) == [i \in 1..Len(b) |-> IF b[i] THEN Num(1) ELSE Num(0)]

(* Series.cumsum(): skipna, a NaN stays NaN and does not enter the sum *)
CumSum(s) ==
    [i \in 1..Len(s) |->
        IF IsNaN(s[i]) THEN NaN ELSE SumRange(FillNa(s, 0), 1, i)]

(* Series.pct_change() *)
PctChange(s) ==
    [i \in 1..Len(s) |->
        IF i = 1 THEN NaN ELSE Sub(Div(s[i], s[i - 1]), Num(1))]

----------------------------------------------------------------------------
(* Tables *)

NoTable == [columns |-> << >>, index |-> << >>, data |-> << >>]

NRows(t) == Len(t.index)

HasCol(t, c) == \E k \in 1..Len(t.columns) : t.columns[k] = c

Col(t, c) == t.data[CHOOSE k \in 1..Len(t.columns) : t.columns[k] = c]

(* df[c] = s: overwrite the column, or append it as the last column *)
SetCol(t, c, s) ==
    IF HasCol(t, c)
    THEN [t EXCEPT !.data[CHOOSE k \in 1..Len(t.columns) : t.columns[k] = c] = s]
    ELSE [t EXCEPT !.columns = Append(t.columns, c), !.data = Append(t.data, s)]

RECURSIVE SelectIdx(_, _, _)
SelectIdx(s, keep, i) ==
    IF i > Len(s) THEN << >>
    ELSE IF keep[i] THEN <<s[i]>> \o SelectIdx(s, keep, i + 1)
    ELSE SelectIdx(s, keep, i + 1)

(* df[mask]: the rows where mask holds, in their order *)
Rows(t, keep) ==
    [columns |-> t.columns,
     index   |-> SelectIdx(t.index, keep, 1),
     data    |-> [k \in 1..Len(t.columns) |-> SelectIdx(t.data[k], keep, 1)]]

(* df.dropna(inplace=True): drop every row holding a NaN in any column *)
DropNa(t) ==
    Rows(t, [i \in 1..NRows(t) |-> \A k \in 1..Len(t.columns) : ~IsNaN(t.data[k][i])])

(* df.fillna(0, inplace=True) *)
FillNaTable(t) ==
    [t EXCEPT !.data = [k \in 1..Len(t.columns) |-> FillNa(t.data[k], 0)]]

(* The table a data provider hands over: Close and Volume per bar, index 1..n *)
MakeTable(b) ==
    [columns |-> <<"Close", "Volume">>,
     index   |-> [i \in 1..Len(b) |-> i],
     data    |-> << [i \in 1..Len(b) |-> Num(b[i].close)],
                    [i \in 1..Len(b) |-> Num(b[i].volume)] >>]

----------------------------------------------------------------------------
(* Inputs: the bar sequences a data provider may return *)

Closes == {1, 2}

Volumes == {0, 2}

Bar == [close : Closes, volume : Volumes]

RECURSIVE SeqsOfLen(_, _)
SeqsOfLen(S, n) ==
    IF n = 0 THEN {<< >>}
    ELSE {Append(s, x) : s \in SeqsOfLen(S, n - 1), x \in S}

ShortBars == UNION {SeqsOfLen(Bar, n) : n \in 0..MaxBars}

(* Long, quiet series (close rising by turns, volume 1) with up to two bars *)
(* of unusual volume, to exercise the 20-bar volume baseline.               *)
SpikeVolumes == {0, 2, 3}

SpikeBars(n, p1, h1, p2, h2) ==
    [i \in 1..n |->
        [close  |-> 1 + (i % 2),
         volume |-> IF i = p1 THEN h1 ELSE IF i = p2 THEN h2 ELSE 1]]

LongBars ==
    {SpikeBars(n, p1, h1, p2, h2) :
        n \in (VolumeWindow - 1)..(VolumeWindow + MaxExtra),
        p1 \in (VolumeWindow - 2)..(VolumeWindow + MaxExtra),
        h1 \in SpikeVolumes,
        p2 \in 0..(VolumeWindow - 3),
        h2 \in SpikeVolumes}

----------------------------------------------------------------------------
(* app.py: price action vs buy/sell pressure *)

(* app.py:21  data = yf.download(...) *)
AppDownload ==
    /\ prog = "app" /\ pc = "start"
    /\ \E b \in ShortBars \cup LongBars :
          /\ bars' = b
          /\ df' = MakeTable(b)
    /\ pc' = "downloaded"
    /\ UNCHANGED <<prog, lags, split, model, y_pred, err, hist>>

(* app.py:23-24  if data.empty: st.error(...) *)
AppNoData ==
    /\ prog = "app" /\ pc = "downloaded"
    /\ NRows(df) = 0
    /\ pc' = "done"
    /\ err' = "No data found"
    /\ UNCHANGED <<prog, bars, df, lags, split, model, y_pred, hist>>

(* app.py:27-34 *)
BasicCalculations(t) ==
    LET t1 == SetCol(t,  "Price Change", Diff(Col(t, "Close")))
        t2 == SetCol(t1, "Volume Delta", Diff(Col(t1, "Volume")))
        t3 == SetCol(t2, "Volume SMA20", RollingMean(Col(t2, "Volume"), VolumeWindow))
        t4 == SetCol(t3, "MA20", RollingMean(Col(t3, "Close"), VolumeWindow))
    IN  SetCol(t4, "MA50", RollingMean(Col(t4, "Close"), MA50Window))

(* a comparison turned around: the sell side tests for a rise *)
BuySellPressure_SellOnRise(t) ==
    LET t1 == SetCol(t, "Buy Pressure",
                     Where(Col(t, "Volume"), GTScalar(Col(t, "Price Change"), 0), Num(0)))
    IN  SetCol(t1, "Sell Pressure",
               Where(Col(t1, "Volume"), GTScalar(Col(t1, "Price Change"), 0), Num(0)))

(* app.py:37-38 *)
BuySellPressure(t) ==
    LET t1 == SetCol(t, "Buy Pressure",
                     Where(Col(t, "Volume"), GTScalar(Col(t, "Price Change"), 0), Num(0)))
    IN  SetCol(t1, "Sell Pressure",
               Where(Col(t1, "Volume"), LTScalar(Col(t1, "Price Change"), 0), Num(0)))

(* app.py:39-44 *)
PressureTotals(t) ==
    LET t1 == SetCol(t,  "Net Pressure",
                     SeriesSub(Col(t, "Buy Pressure"), Col(t, "Sell Pressure")))
        t2 == SetCol(t1, "Volume_Total",
                     SeriesAdd(Col(t1, "Buy Pressure"), Col(t1, "Sell Pressure")))
        t3 == SetCol(t2, "Buy Volume %",
                     FillNa(Scale(SeriesDiv(Col(t2, "Buy Pressure"), Col(t2, "Volume_Total")), 100), 0))
    IN  SetCol(t3, "Sell Volume %",
               FillNa(Scale(SeriesDiv(Col(t3, "Sell Pressure"), Col(t3, "Volume_Total")), 100), 0))

(* the undefined baseline read as 0 *)
VolumeShock_NaNAsZero(t) ==
    AsInt(SeriesGT(Col(t, "Volume"), Scale(FillNa(Col(t, "Volume SMA20"), 0), ShockFactor)))

(* app.py:47-51; align() of two columns of one table is the identity *)
VolumeShock(t) ==
    AsInt(SeriesGT(Col(t, "Volume"), Scale(Col(t, "Volume SMA20"), ShockFactor)))

VolumeAnalysis(t) ==
    LET t1 == SetCol(t, "Volume_Above_Avg",
                     AsInt(SeriesGT(Col(t, "Volume"), Col(t, "Volume SMA20"))))
    IN  SetCol(t1, "Volume_Shock", VolumeShock(t1))

(* the plain quotient, no guard on a zero denominator *)
Imbalance_Unguarded(t) ==
    SeriesDiv(Col(t, "Net Pressure"), Col(t, "Volume_Total"))

(* app.py:55 *)
Imbalance(t) ==
    FillNa(SeriesDiv(Col(t, "Net Pressure"), Replace(Col(t, "Volume_Total"), 0, 1)), 0)

(* the running sum taken over the wrong column *)
CumulativePressure_BuyOnly(t) == CumSum(Col(t, "Buy Pressure"))

(* app.py:56 *)
CumulativePressure(t) == CumSum(Col(t, "Net Pressure"))

(* app.py:55-57 *)
FinalMetrics(t) ==
    LET t1 == SetCol(t,  "Imbalance", Imbalance(t))
        t2 == SetCol(t1, "Cumulative Pressure", CumulativePressure(t1))
    IN  SetCol(t2, "Minute_Return", PctChange(Col(t2, "Close")))

(* app.py:25-57, the else branch, one statement group at a time *)
AppBasic ==
    /\ prog = "app" /\ pc = "downloaded"
    /\ NRows(df) > 0
    /\ df' = BasicCalculations(df)
    /\ pc' = "basic"
    /\ UNCHANGED <<prog, bars, lags, split, model, y_pred, err, hist>>

AppPressure ==
    /\ prog = "app" /\ pc = "basic"
    /\ df' = PressureTotals(BuySellPressure(df))
    /\ pc' = "pressure"
    /\ UNCHANGED <<prog, bars, lags, split, model, y_pred, err, hist>>

AppVolume ==
    /\ prog = "app" /\ pc = "pressure"
    /\ df' = VolumeAnalysis(df)
    /\ pc' = "volume"
    /\ UNCHANGED <<prog, bars, lags, split, model, y_pred, err, hist>>

AppFinal ==
    /\ prog = "app" /\ pc = "volume"
    /\ df' = FinalMetrics(df)
    /\ pc' = "done"
    /\ UNCHANGED <<prog, bars, lags, split, model, y_pred, err, hist>>

AppNext == AppDownload \/ AppNoData \/ AppBasic \/ AppPressure \/ AppVolume \/ AppFinal

----------------------------------------------------------------------------
(* Feature engineering shared by prediction/model.py and nbeats_model.py *)

BuyLagName == <<"Buy_lag_1", "Buy_lag_2", "Buy_lag_3", "Buy_lag_4", "Buy_lag_5",
                "Buy_lag_6", "Buy_lag_7", "Buy_lag_8", "Buy_lag_9", "Buy_lag_10">>

SellLagName == <<"Sell_lag_1", "Sell_lag_2", "Sell_lag_3", "Sell_lag_4", "Sell_lag_5",
                 "Sell_lag_6", "Sell_lag_7", "Sell_lag_8", "Sell_lag_9", "Sell_lag_10">>

CloseLagName == <<"Close_lag_1", "Close_lag_2", "Close_lag_3", "Close_lag_4", "Close_lag_5",
                  "Close_lag_6", "Close_lag_7", "Close_lag_8", "Close_lag_9", "Close_lag_10">>

(* 'lag' in col *)
IsLagCol(c) ==
    \E k \in 1..Len(BuyLagName) :
        c = BuyLagName[k] \/ c = SellLagName[k] \/ c = CloseLagName[k]

(* np.where(cond, s, 0) *)
NpWhere(cond, s, other) == [i \in 1..Len(s) |-> IF cond[i] THEN s[i] ELSE Num(other)]

(* >= in place of >: a flat bar counts as buying *)
AddBuySellFeatures_FlatIsBuy(t) ==
    LET t1 == SetCol(t,  "Price Change", Diff(Col(t, "Close")))
        t2 == SetCol(t1, "Buy Volume",
                     NpWhere(GTScalar(Col(t1, "Price Change"), -1), Col(t1, "Volume"), 0))
        t3 == SetCol(t2, "Sell Volume",
                     NpWhere(LTScalar(Col(t2, "Price Change"), 0), Col(t2, "Volume"), 0))
    IN  FillNaTable(t3)

(* model.py:23-28 add_buy_sell_features, nbeats_model.py:46-51 add_buy_sell_volume *)
AddBuySellFeatures(t) ==
    LET t1 == SetCol(t,  "Price Change", Diff(Col(t, "Close")))
        t2 == SetCol(t1, "Buy Volume",
                     NpWhere(GTScalar(Col(t1, "Price Change"), 0), Col(t1, "Volume"), 0))
        t3 == SetCol(t2, "Sell Volume",
                     NpWhere(LTScalar(Col(t2, "Price Change"), 0), Col(t2, "Volume"), 0))
    IN  FillNaTable(t3)

(* off by one: the first lag is the current bar *)
LagOf_OffByOne(s, k) == Shift(s, k - 1)

(* The k-th lag of a column *)
LagOf(s, k) == Shift(s, k)

(* model.py:32-35, the loop body for i = k .. n *)
RECURSIVE ModelLagLoop(_, _, _)
ModelLagLoop(t, k, n) ==
    IF k > n THEN t
    ELSE LET t1 == SetCol(t,  BuyLagName[k],   LagOf(Col(t,  "Buy Volume"),  k))
             t2 == SetCol(t1, SellLagName[k],  LagOf(Col(t1, "Sell Volume"), k))
             t3 == SetCol(t2, CloseLagName[k], LagOf(Col(t2, "Close"),       k))
         IN  ModelLagLoop(t3, k + 1, n)

(* nbeats_model.py:55-58, the loop body for i = k .. n *)
RECURSIVE NbLagLoop(_, _, _)
NbLagLoop(t, k, n) ==
    IF k > n THEN t
    ELSE LET t1 == SetCol(t,  CloseLagName[k], LagOf(Col(t,  "Close"),       k))
             t2 == SetCol(t1, BuyLagName[k],   LagOf(Col(t1, "Buy Volume"),  k))
             t3 == SetCol(t2, SellLagName[k],  LagOf(Col(t2, "Sell Volume"), k))
         IN  NbLagLoop(t3, k + 1, n)

(* the missing lags filled with zeros, the rows kept *)
DropIncomplete_ZeroFill(t) == FillNaTable(t)

(* the first L rows hold a NaN lag and are dropped *)
DropIncomplete(t) == DropNa(t)

(* model.py:31-37 create_lag_features *)
ModelCreateLagFeatures(t, n) == DropIncomplete(ModelLagLoop(t, 1, n))

(* nbeats_model.py:54-60 create_lag_features *)
NbCreateLagFeatures(t, n) == DropIncomplete(NbLagLoop(t, 1, n))

(* [col for col in df.columns if 'lag' in col], in column order *)
FeatureCols(t) == SelectSeq(t.columns, IsLagCol)

(* df[cols] *)
Project(t, cols) ==
    [columns |-> cols,
     index   |-> t.index,
     data    |-> [k \in 1..Len(cols) |-> Col(t, cols[k])]]

(* row i of a table, as the tuple of its cells *)
RowOf(t, i) == [k \in 1..Len(t.columns) |-> t.data[k][i]]

----------------------------------------------------------------------------
(* prediction/model.py: random-forest forecaster *)

NoSplit == [X_train |-> NoTable, y_train |-> NoTable, X_test |-> NoTable, y_test |-> NoTable,
            boundary |-> << >>]

NoModel == [fitted |-> FALSE, X |-> NoTable, y |-> NoTable, seed |-> 0]

RandomState == 42

(* the boundary row taken into the train set as well *)
TrainMask_Inclusive(t, test_start) == [i \in 1..NRows(t) |-> t.index[i] <= test_start]

(* the boundary row left out of the holdout set *)
TestMask_Exclusive(t, test_start, test_end) ==
    [i \in 1..NRows(t) |-> t.index[i] > test_start /\ t.index[i] <= test_end]

(* model.py:41-48: train is index < test_start, test is test_start <= index <= test_end *)
TrainMask(t, test_start) == [i \in 1..NRows(t) |-> t.index[i] < test_start]

TestMask(t, test_start, test_end) ==
    [i \in 1..NRows(t) |-> t.index[i] >= test_start /\ t.index[i] <= test_end]

ModelSplitOf(t, test_start, test_end) ==
    LET X == Project(t, FeatureCols(t))
        y == Project(t, <<"Close">>)
    IN  [X_train |-> Rows(X, TrainMask(t, test_start)),
         y_train |-> Rows(y, TrainMask(t, test_start)),
         X_test  |-> Rows(X, TestMask(t, test_start, test_end)),
         y_test  |-> Rows(y, TestMask(t, test_start, test_end)),
         boundary |-> <<test_start, test_end>>]

(* the value a fitted model predicts for one feature row: a function of the *)
(* training data, the seed and the row                                      *)
PredictRows(m, X) == [i \in 1..NRows(X) |-> [model |-> m, x |-> RowOf(X, i)]]

(* What an earlier run of the script left behind for the observer: nothing   *)
(* of it is read by the script itself.  A second run is made on the same     *)
(* settings (lags, test window) and on the same bars or on bars that differ  *)
(* in the last bar only.                                                     *)
NoHist == [run |-> 1, bars |-> << >>, boundary |-> << >>, df |-> NoTable,
           model |-> NoModel, y_pred |-> << >>, pc |-> "start", err |-> "none"]

DiffersInLastBar(b, c) ==
    /\ Len(b) = Len(c) /\ Len(b) > 0
    /\ \A i \in 1..(Len(b) - 1) : b[i] = c[i]

SecondRunBars(b) == hist.run = 2 => (b = hist.bars \/ DiffersInLastBar(b, hist.bars))

(* model.py:14-19, 64  df = fetch_full_hourly_data(ticker): unique index, no NaN *)
ModelFetch ==
    /\ prog = "model" /\ pc = "start"
    /\ \E b \in ShortBars :
          /\ SecondRunBars(b)
          /\ bars' = b
          /\ df' = MakeTable(b)
    /\ pc' = "fetched"
    /\ UNCHANGED <<prog, lags, split, model, y_pred, err, hist>>

(* model.py:66 *)
ModelAddFeatures ==
    /\ prog = "model" /\ pc = "fetched"
    /\ df' = AddBuySellFeatures(df)
    /\ pc' = "features"
    /\ UNCHANGED <<prog, bars, lags, split, model, y_pred, err, hist>>

(* model.py:67 *)
ModelCreateLags ==
    /\ prog = "model" /\ pc = "features"
    /\ df' = ModelCreateLagFeatures(df, lags)
    /\ pc' = "lagged"
    /\ UNCHANGED <<prog, bars, lags, split, model, y_pred, err, hist>>

(* model.py:40-48, train_model up to the split *)
ModelSplit ==
    /\ prog = "model" /\ pc = "lagged"
    /\ \E test_start \in 1..(MaxBars + 1) :
       \E test_end \in test_start..(MaxBars + 1) :
          /\ hist.run = 2 => <<test_start, test_end>> = hist.boundary
          /\ split' = ModelSplitOf(df, test_start, test_end)
    /\ pc' = "split"
    /\ UNCHANGED <<prog, bars, df, lags, model, y_pred, err, hist>>

(* model.py:50-51: RandomForestRegressor.fit raises ValueError on 0 samples *)
ModelFit ==
    /\ prog = "model" /\ pc = "split"
    /\ IF NRows(split.X_train) = 0
       THEN /\ err' = "ValueError"
            /\ pc' = "failed"
            /\ UNCHANGED model
       ELSE /\ model' = [fitted |-> TRUE, X |-> split.X_train, y |-> split.y_train,
                         seed |-> RandomState]
            /\ pc' = "fitted"
            /\ UNCHANGED err
    /\ UNCHANGED <<prog, bars, df, lags, split, y_pred, hist>>

(* model.py:52-54: predict raises ValueError on 0 samples *)
ModelPredict ==
    /\ prog = "model" /\ pc = "fitted"
    /\ IF NRows(split.X_test) = 0
       THEN /\ err' = "ValueError"
            /\ pc' = "failed"
            /\ UNCHANGED y_pred
       ELSE /\ y_pred' = PredictRows(model, split.X_test)
            /\ pc' = "done"
            /\ UNCHANGED err
    /\ UNCHANGED <<prog, bars, df, lags, split, model, hist>>

ModelNext ==
    ModelFetch \/ ModelAddFeatures \/ ModelCreateLags \/ ModelSplit \/ ModelFit \/ ModelPredict

----------------------------------------------------------------------------
(* prediction/nbeats_model.py: LSTM forecaster *)

(* nbeats_model.py:37-43: sorted by time, the timestamps moved to a column, *)
(* RangeIndex 0..n-1                                                         *)
NbMakeTable(b) ==
    [columns |-> <<"datetime", "Close", "Volume">>,
     index   |-> [i \in 1..Len(b) |-> i - 1],
     data    |-> << [i \in 1..Len(b) |-> Num(i)],
                    [i \in 1..Len(b) |-> Num(b[i].close)],
                    [i \in 1..Len(b) |-> Num(b[i].volume)] >>]

(* StandardScaler: column mean and (population) variance *)
Mean(s) == Div(SumRange(s, 1, Len(s)), Num(Len(s)))

Variance(s) ==
    LET m == Mean(s)
    IN  Div(SumRange([i \in 1..Len(s) |-> Mul(Sub(s[i], m), Sub(s[i], m))], 1, Len(s)),
            Num(Len(s)))

(* fit_transform of one column: (x - mean) / sqrt(var), kept as the pair     *)
(* <<x - mean, var>>; a zero variance scales by 1                            *)
Standardize(s) ==
    LET m == Mean(s)
        v == Variance(s)
    IN  [i \in 1..Len(s) |-> <<Sub(s[i], m), v>>]

(* nbeats_model.py:101-105: both scalers are fitted on every row of df *)
ScaleTable(t) ==
    [t EXCEPT !.data = [k \in 1..Len(t.columns) |-> Standardize(t.data[k])]]

(* nbeats_model.py:107  split_idx = int(len(X_scaled) * 0.8) *)
SplitIdx(n) == (n * 8) \div 10

(* nbeats_model.py:108-109 *)
NbSplitOf(X, y) ==
    LET k == SplitIdx(NRows(X))
    IN  [X_train |-> Rows(X, [i \in 1..NRows(X) |-> i <= k]),
         y_train |-> Rows(y, [i \in 1..NRows(y) |-> i <= k]),
         X_test  |-> Rows(X, [i \in 1..NRows(X) |-> i > k]),
         y_test  |-> Rows(y, [i \in 1..NRows(y) |-> i > k]),
         boundary |-> <<k>>]

(* nbeats_model.py:119: the network's initial weights come from torch's      *)
(* global generator, which the script never seeds                            *)
InitWeights == {1, 2}

(* nbeats_model.py:92: a table of at least one bar, or None after st.error *)
NbFetch ==
    /\ prog = "nbeats" /\ pc = "start"
    /\ \/ /\ \E b \in ShortBars \ {<< >>} :
               /\ SecondRunBars(b)
               /\ bars' = b
               /\ df' = NbMakeTable(b)
          /\ pc' = "fetched"
          /\ UNCHANGED err
       \/ /\ err' = "Error fetching data"
          /\ pc' = "done"
          /\ UNCHANGED <<bars, df>>
    /\ UNCHANGED <<prog, lags, split, model, y_pred, hist>>

(* nbeats_model.py:94 *)
NbAddFeatures ==
    /\ prog = "nbeats" /\ pc = "fetched"
    /\ df' = AddBuySellFeatures(df)
    /\ pc' = "features"
    /\ UNCHANGED <<prog, bars, lags, split, model, y_pred, err, hist>>

(* nbeats_model.py:95 *)
NbCreateLags ==
    /\ prog = "nbeats" /\ pc = "features"
    /\ df' = NbCreateLagFeatures(df, lags)
    /\ pc' = "lagged"
    /\ UNCHANGED <<prog, bars, lags, split, model, y_pred, err, hist>>

(* nbeats_model.py:97-109: StandardScaler.fit_transform raises ValueError on *)
(* 0 samples; otherwise scale, then split at 80 %                            *)
NbScaleSplit ==
    /\ prog = "nbeats" /\ pc = "lagged"
    /\ IF NRows(df) = 0
       THEN /\ err' = "ValueError"
            /\ pc' = "failed"
            /\ UNCHANGED split
       ELSE /\ split' = NbSplitOf(ScaleTable(Project(df, FeatureCols(df))),
                                  ScaleTable(Project(df, <<"Close">>)))
            /\ pc' = "split"
            /\ UNCHANGED err
    /\ UNCHANGED <<prog, bars, df, lags, model, y_pred, hist>>

(* nbeats_model.py:111-121: Trainer.fit over the train loader.  With an empty *)
(* loader no training step runs; whether Trainer.fit then returns or raises   *)
(* depends on the installed pytorch_lightning, so both outcomes are allowed.  *)
NbFit ==
    /\ prog = "nbeats" /\ pc = "split"
    /\ \E w \in InitWeights :
          \/ /\ model' = [fitted |-> TRUE, X |-> split.X_train, y |-> split.y_train,
                          seed |-> w]
             /\ pc' = "fitted"
             /\ UNCHANGED err
          \/ /\ NRows(split.X_train) = 0
             /\ err' = "MisconfigurationException"
             /\ pc' = "failed"
             /\ UNCHANGED model
    /\ UNCHANGED <<prog, bars, df, lags, split, y_pred, hist>>

(* nbeats_model.py:124-128; X_test has at least one row whenever df has *)
NbInference ==
    /\ prog = "nbeats" /\ pc = "fitted"
    /\ y_pred' = PredictRows(model, split.X_test)
    /\ pc' = "done"
    /\ UNCHANGED <<prog, bars, df, lags, split, model, err, hist>>

NbNext == NbFetch \/ NbAddFeatures \/ NbCreateLags \/ NbScaleSplit \/ NbFit \/ NbInference

----------------------------------------------------------------------------
(* main.py: technical indicators of the chart viewer *)

(* Series.clip(lower=k) / Series.clip(upper=k); NaN stays NaN *)
ClipLower(s, k) ==
    [i \in 1..Len(s) |-> IF IsNaN(s[i]) THEN NaN ELSE IF LT(s[i], Num(k)) THEN Num(k) ELSE s[i]]

ClipUpper(s, k) ==
    [i \in 1..Len(s) |-> IF IsNaN(s[i]) THEN NaN ELSE IF GT(s[i], Num(k)) THEN Num(k) ELSE s[i]]

Neg(s) == [i \in 1..Len(s) |-> Sub(Num(0), s[i])]

(* a warm-up gap: no value before a full span of observations *)
RECURSIVE EwmAt_WarmUp(_, _, _)
EwmAt_WarmUp(s, span, i) ==
    IF i < span THEN NaN
    ELSE IF i = 1 THEN s[1]
    ELSE Add(Mul(Rat(2, span + 1), s[i]),
             Mul(Rat(span - 1, span + 1),
                 IF i = span THEN s[i] ELSE EwmAt_WarmUp(s, span, i - 1)))

(* Series.ewm(span, adjust=False).mean() at row i: y[0] = x[0],            *)
(* y[i] = a x[i] + (1 - a) y[i-1] with a = 2 / (span + 1)                  *)
RECURSIVE EwmAt(_, _, _)
EwmAt(s, span, i) ==
    IF i = 1 THEN s[1]
    ELSE Add(Mul(Rat(2, span + 1), s[i]),
             Mul(Rat(span - 1, span + 1), EwmAt(s, span, i - 1)))

Ewm(s, span) == [i \in 1..Len(s) |-> EwmAt(s, span, i)]

(* the mean over the observations so far, from the first one on *)
RsiAverage_NoMinPeriods(s) ==
    [i \in 1..Len(s) |->
        IF i < 2 THEN NaN
        ELSE IF i < RsiWindow + 1 THEN Div(SumRange(s, 2, i), Num(i - 1))
        ELSE Div(SumRange(s, i - RsiWindow + 1, i), Num(RsiWindow))]

(* main.py:88-89  rolling(14).mean() *)
RsiAverage(s) == RollingMean(s, RsiWindow)

(* main.py:85-91 *)
Rsi(close) ==
    LET delta    == Diff(close)
        gain     == ClipLower(delta, 0)
        loss     == Neg(ClipUpper(delta, 0))
        avg_gain == RsiAverage(gain)
        avg_loss == RsiAverage(loss)
        rs       == SeriesDiv(avg_gain, avg_loss)
    IN  [i \in 1..Len(close) |->
            Sub(Num(100), Div(Num(100), Add(Num(1), rs[i])))]

(* main.py:94-97 *)
Macd(close) == SeriesSub(Ewm(close, MacdFast), Ewm(close, MacdSlow))

Signal(macd) == Ewm(macd, SignalSpan)

(* The closes move only in the last two bars: exact EMA / MACD values of a  *)
(* series that moves earlier do not fit the checker's 32-bit integers.      *)
MainCloses == {1, 2, 3}

TailBars(n, c, c1, c2) ==
    [i \in 1..n |->
        [close  |-> IF i = n THEN c2 ELSE IF i = n - 1 THEN c1 ELSE c,
         volume |-> 1]]

MainBars ==
    {TailBars(n, c, c1, c2) :
        n \in 0..(SmaWindow + MaxExtra), c \in MainCloses, c1 \in MainCloses, c2 \in MainCloses}

(* main.py:75  df = ticker.history(period=period, interval=interval) *)
MainFetch ==
    /\ prog = "main" /\ pc = "start"
    /\ \E b \in MainBars :
          /\ bars' = b
          /\ df' = MakeTable(b)
    /\ pc' = "fetched"
    /\ UNCHANGED <<prog, lags, split, model, y_pred, err, hist>>

(* main.py:77-78  if df.empty: st.warning(...) *)
MainNoData ==
    /\ prog = "main" /\ pc = "fetched"
    /\ NRows(df) = 0
    /\ pc' = "done"
    /\ err' = "No data available"
    /\ UNCHANGED <<prog, bars, df, lags, split, model, y_pred, hist>>

(* main.py:81-82 *)
MainAverages ==
    /\ prog = "main" /\ pc = "fetched"
    /\ NRows(df) > 0
    /\ df' = SetCol(SetCol(df, "SMA20", RollingMean(Col(df, "Close"), SmaWindow)),
                    "EMA20", Ewm(Col(df, "Close"), EmaSpan))
    /\ pc' = "averages"
    /\ UNCHANGED <<prog, bars, lags, split, model, y_pred, err, hist>>

(* main.py:85-91 *)
MainRsi ==
    /\ prog = "main" /\ pc = "averages"
    /\ df' = SetCol(df, "RSI", Rsi(Col(df, "Close")))
    /\ pc' = "rsi"
    /\ UNCHANGED <<prog, bars, lags, split, model, y_pred, err, hist>>

(* main.py:94-97 *)
MainMacd ==
    /\ prog = "main" /\ pc = "rsi"
    /\ LET t1 == SetCol(df, "MACD", Macd(Col(df, "Close")))
       IN  df' = SetCol(t1, "Signal", Signal(Col(t1, "MACD")))
    /\ pc' = "done"
    /\ UNCHANGED <<prog, bars, lags, split, model, y_pred, err, hist>>

MainNext == MainFetch \/ MainNoData \/ MainAverages \/ MainRsi \/ MainMacd

----------------------------------------------------------------------------
(* Streamlit runs the script again from the top on the next interaction      *)
(* (model.py:59-63 sidebar input, nbeats_model.py:91 button); every name of  *)
(* the script is rebound, nothing of the earlier run is kept.                *)
Rerun ==
    /\ prog \in {"model", "nbeats"}
    /\ pc \in {"done", "failed"}
    /\ hist.run = 1
    /\ hist' = [run |-> 2, bars |-> bars, boundary |-> split.boundary, df |-> df,
                model |-> model, y_pred |-> y_pred, pc |-> pc, err |-> err]
    /\ pc' = "start"
    /\ bars' = << >>
    /\ df' = NoTable
    /\ split' = NoSplit
    /\ model' = NoModel
    /\ y_pred' = << >>
    /\ err' = "none"
    /\ UNCHANGED <<prog, lags>>

----------------------------------------------------------------------------
(* One run of one of the four scripts; lags is the sidebar slider   *)
(* (model.py:60, nbeats_model.py:89), unused by app.py and main.py  *)
Init ==
    /\ prog \in {"app", "model", "nbeats", "main"}
    /\ pc = "start"
    /\ bars = << >>
    /\ df = NoTable
    /\ lags \in IF prog \in {"app", "main"} THEN {0} ELSE 1..MaxLags
    /\ split = NoSplit
    /\ model = NoModel
    /\ y_pred = << >>
    /\ err = "none"
    /\ hist = NoHist

Next == AppNext \/ ModelNext \/ NbNext \/ MainNext

Spec == Init /\ [][Next]_vars

(* Two runs of a forecasting script, one after the other *)
InitTwice == Init /\ prog \in {"model", "nbeats"}

NextTwice == ModelNext \/ NbNext \/ Rerun

SpecTwice == InitTwice /\ [][NextTwice]_vars

----------------------------------------------------------------------------
(* Properties.  Expected values are computed from the bars as fetched, in   *)
(* integer arithmetic, and compared with the columns the scripts computed.  *)

Rising(i)  == i > 1 /\ bars[i].close > bars[i - 1].close

Falling(i) == i > 1 /\ bars[i].close < bars[i - 1].close

Flat(i)    == ~Rising(i) /\ ~Falling(i)

ExpectedBuy(i)  == IF Rising(i)  THEN bars[i].volume ELSE 0

ExpectedSell(i) == IF Falling(i) THEN bars[i].volume ELSE 0

AppHasPressure == prog = "app" /\ HasCol(df, "Sell Pressure")

ForecastHasVolumes == prog \in {"model", "nbeats"} /\ pc = "features"

(* C1: buyVolume[i] is volume[i] on a rising close and 0 otherwise, sellVolume[i] *)
(* is volume[i] on a falling close and 0 otherwise; the first bar is flat, 0 / 0. *)
C1_BuySellVolume ==
    /\ AppHasPressure =>
         \A i \in 1..Len(bars) :
            /\ Col(df, "Buy Pressure")[i]  = Num(ExpectedBuy(i))
            /\ Col(df, "Sell Pressure")[i] = Num(ExpectedSell(i))
    /\ ForecastHasVolumes =>
         \A i \in 1..Len(bars) :
            /\ Col(df, "Buy Volume")[i]  = Num(ExpectedBuy(i))
            /\ Col(df, "Sell Volume")[i] = Num(ExpectedSell(i))

(* a rising, a falling and a flat bar after the first, each with volume *)
C1_Witness ==
    /\ ForecastHasVolumes
    /\ Len(bars) > 1 /\ bars[1].volume > 0
    /\ \E i, j, k \in 2..Len(bars) :
          /\ Rising(i)  /\ bars[i].volume > 0
          /\ Falling(j) /\ bars[j].volume > 0
          /\ Flat(k)    /\ bars[k].volume > 0

(* buy + sell of bar i, as the script holds it *)
PressureSum(i) ==
    IF prog = "app" THEN Col(df, "Volume_Total")[i]
    ELSE Add(Col(df, "Buy Volume")[i], Col(df, "Sell Volume")[i])

HasPressureSum ==
    \/ prog = "app" /\ HasCol(df, "Volume_Total")
    \/ ForecastHasVolumes

(* C2 as stated: buy + sell <= volume, equal to volume on every bar whose price   *)
(* changed, and 0 only on flat bars and the first bar.                            *)
C2_Original ==
    HasPressureSum =>
        \A i \in 1..Len(bars) :
            /\ ~GT(PressureSum(i), Num(bars[i].volume))
            /\ ~Flat(i) => PressureSum(i) = Num(bars[i].volume)
            /\ PressureSum(i) = Num(0) => Flat(i)

(* C2 amended: buy + sell <= volume, equal to volume on every bar whose price     *)
(* changed, and 0 only on flat bars, the first bar and bars of zero volume.       *)
C2_VolumeSum ==
    HasPressureSum =>
        \A i \in 1..Len(bars) :
            /\ ~GT(PressureSum(i), Num(bars[i].volume))
            /\ ~Flat(i) => PressureSum(i) = Num(bars[i].volume)
            /\ PressureSum(i) = Num(0) => (Flat(i) \/ bars[i].volume = 0)

(* a bar whose price changed although nothing traded, beside ordinary bars *)
C2_Witness ==
    /\ prog = "app" /\ HasCol(df, "Volume_Total")
    /\ \E i, j, k \in 1..Len(bars) :
          /\ ~Flat(i) /\ bars[i].volume = 0
          /\ ~Flat(j) /\ bars[j].volume > 0
          /\ Flat(k) /\ k > 1 /\ bars[k].volume > 0 /\ PressureSum(k) = Num(0)

AppDone == prog = "app" /\ pc = "done" /\ err = "none"

(* C3: imbalance is net / (buy + sell) where that sum is positive and 0 where it *)
(* is 0; it is never NaN or infinite and lies in [-1, 1].                        *)
C3_Imbalance ==
    AppDone =>
        \A i \in 1..Len(bars) :
            LET net == ExpectedBuy(i) - ExpectedSell(i)
                den == ExpectedBuy(i) + ExpectedSell(i)
                imb == Col(df, "Imbalance")[i]
            IN  /\ Len(imb) = 2 /\ imb[2] > 0
                /\ den > 0 => imb[1] * den = net * imb[2]
                /\ den = 0 => imb[1] = 0
                /\ -imb[2] <= imb[1] /\ imb[1] <= imb[2]

(* all three outcomes in one series: -1, 0 on a zero denominator, +1 *)
C3_Witness ==
    /\ AppDone
    /\ \E i, j, k \in 1..Len(bars) :
          /\ Col(df, "Volume_Total")[i] = Num(0) /\ Col(df, "Imbalance")[i] = Num(0)
          /\ Col(df, "Imbalance")[j] = Num(1)
          /\ Col(df, "Imbalance")[k] = Num(-1)

(* C4: cumulativePressure[0] = netPressure[0], cumulativePressure[i] =            *)
(* cumulativePressure[i-1] + netPressure[i], netPressure = buy - sell.            *)
C4_CumulativePressure ==
    AppDone =>
        \A i \in 1..Len(bars) :
            LET cum == Col(df, "Cumulative Pressure")
                net == Col(df, "Net Pressure")
            IN  /\ net[i] = Num(ExpectedBuy(i) - ExpectedSell(i))
                /\ i = 1 => cum[i] = net[i]
                /\ i > 1 => cum[i] = Add(cum[i - 1], net[i])

(* the running sum goes up, comes back down and differs from the net pressure *)
C4_Witness ==
    /\ AppDone
    /\ \E i, j \in 2..Len(bars) :
          /\ i < j
          /\ GT(Col(df, "Cumulative Pressure")[i], Num(0))
          /\ LT(Col(df, "Net Pressure")[j], Num(0))
          /\ Col(df, "Cumulative Pressure")[j] # Col(df, "Net Pressure")[j]

RECURSIVE VolumeSum(_, _)
VolumeSum(lo, hi) == IF lo > hi THEN 0 ELSE bars[hi].volume + VolumeSum(lo, hi - 1)

(* volume[i] > 2 x mean(volume[i-19..i]), the mean being defined *)
ExpectedShock(i) ==
    /\ i >= VolumeWindow
    /\ VolumeWindow * bars[i].volume > ShockFactor * VolumeSum(i - VolumeWindow + 1, i)

(* C5: a bar is flagged exactly when its trailing 20-bar mean volume is defined   *)
(* and volume > 2 x that mean; the first 19 bars are never flagged.               *)
C5_VolumeShock ==
    (prog = "app" /\ HasCol(df, "Volume_Shock")) =>
        \A i \in 1..Len(bars) :
            /\ Col(df, "Volume_Shock")[i] = (IF ExpectedShock(i) THEN Num(1) ELSE Num(0))
            /\ i < VolumeWindow => Col(df, "Volume_Shock")[i] = Num(0)

(* a flagged bar, and an equally heavy bar inside the first 19 left unflagged *)
C5_Witness ==
    /\ prog = "app" /\ HasCol(df, "Volume_Shock")
    /\ \E i, j \in 1..Len(bars) :
          /\ i >= VolumeWindow /\ Col(df, "Volume_Shock")[i] = Num(1)
          /\ j < VolumeWindow /\ bars[j].volume = bars[i].volume
          /\ Col(df, "Volume_Shock")[j] = Num(0)

----------------------------------------------------------------------------
(* Feature vectors and the train / holdout split *)

HasLags == prog \in {"model", "nbeats"} /\ HasCol(df, "Close_lag_1")

(* position in the fetched series of a row: model.py keeps the time index, *)
(* nbeats_model.py the 0-based RangeIndex                                  *)
PosOfIndex(x) == IF prog = "model" THEN x ELSE x + 1

Pos(r) == PosOfIndex(df.index[r])

(* C6: every feature of the vector at bar i is the value at bar i-k for a lag    *)
(* k in 1..L, the label is close[i]; nothing is read at or after bar i.          *)
C6_NoLookAhead ==
    HasLags =>
        /\ Len(FeatureCols(df)) = 3 * lags
        /\ \A c \in 1..Len(FeatureCols(df)) :
              \E k \in 1..lags :
                 FeatureCols(df)[c] \in {BuyLagName[k], SellLagName[k], CloseLagName[k]}
        /\ \A r \in 1..NRows(df) :
              /\ Pos(r) \in 1..Len(bars)
              /\ Col(df, "Close")[r] = Num(bars[Pos(r)].close)
              /\ \A k \in 1..lags :
                    /\ Pos(r) - k >= 1
                    /\ Col(df, BuyLagName[k])[r]   = Num(ExpectedBuy(Pos(r) - k))
                    /\ Col(df, SellLagName[k])[r]  = Num(ExpectedSell(Pos(r) - k))
                    /\ Col(df, CloseLagName[k])[r] = Num(bars[Pos(r) - k].close)

(* two lags whose closes differ from each other and from the label's bar *)
C6_Witness ==
    /\ HasLags /\ lags = 2 /\ NRows(df) >= 2
    /\ \E r \in 1..NRows(df) :
          /\ Col(df, "Close_lag_1")[r] # Col(df, "Close")[r]
          /\ Col(df, "Close_lag_2")[r] # Col(df, "Close_lag_1")[r]
          /\ Col(df, "Buy_lag_1")[r] # Col(df, "Buy_lag_2")[r]

(* C7: n bars and lag depth L give one vector per bar L <= i < n, in ascending   *)
(* order; the first L bars are dropped, and nothing is left when n <= L.         *)
C7_FirstLagsDropped ==
    HasLags =>
        /\ NRows(df) = (IF Len(bars) > lags THEN Len(bars) - lags ELSE 0)
        /\ \A r \in 1..NRows(df) : Pos(r) = lags + r

(* more bars than lags: the first L are gone, the rest are kept *)
C7_Witness ==
    /\ HasLags /\ lags = 2 /\ Len(bars) = 4
    /\ NRows(df) = 2 /\ Pos(1) = 3 /\ Pos(2) = 4

SplitMade == prog \in {"model", "nbeats"} /\ split # NoSplit

Ascending(s) == \A i, j \in 1..Len(s) : i < j => s[i] < s[j]

InSeq(x, s) == \E i \in 1..Len(s) : s[i] = x

(* C8: every train timestamp is earlier than every holdout timestamp, both       *)
(* sets keep the ascending order, and a boundary strictly inside the series      *)
(* leaves a non-empty train set.                                                 *)
C8_ChronologicalSplit ==
    SplitMade =>
        /\ \A a \in 1..NRows(split.X_train) : \A b \in 1..NRows(split.X_test) :
               split.X_train.index[a] < split.X_test.index[b]
        /\ Ascending(split.X_train.index) /\ Ascending(split.X_test.index)
        /\ split.y_train.index = split.X_train.index
        /\ split.y_test.index = split.X_test.index
        /\ prog = "model" =>
              /\ \A a \in 1..NRows(split.X_train) :
                     split.X_train.index[a] < split.boundary[1]
              /\ \A b \in 1..NRows(split.X_test) :
                     split.X_test.index[b] >= split.boundary[1]
              /\ (/\ NRows(df) > 0
                  /\ df.index[1] < split.boundary[1]
                  /\ split.boundary[1] < df.index[NRows(df)]
                  /\ split.boundary[2] >= df.index[NRows(df)])
                 => (NRows(split.X_train) > 0 /\ NRows(split.X_test) > 0)

(* a boundary strictly inside the series, two rows on one side of it *)
C8_Witness ==
    /\ SplitMade /\ prog = "model"
    /\ NRows(df) = 3
    /\ df.index[1] < split.boundary[1] /\ split.boundary[1] < df.index[3]
    /\ NRows(split.X_train) = 1 /\ NRows(split.X_test) = 2

InTrain(r) == InSeq(df.index[r], split.X_train.index)

InTest(r) == InSeq(df.index[r], split.X_test.index)

(* the rows of df in a part are consecutive rows *)
Contiguous(In(_)) ==
    \A r1, r2, r3 \in 1..NRows(df) :
        (r1 < r2 /\ r2 < r3 /\ In(r1) /\ In(r3)) => In(r2)

(* C9 as stated: every feature vector is in exactly one of the train set and the *)
(* holdout set, each a contiguous run on its side of the boundary.               *)
C9_Original ==
    SplitMade =>
        /\ \A r \in 1..NRows(df) : InTrain(r) # InTest(r)
        /\ Contiguous(InTrain) /\ Contiguous(InTest)

(* C9 amended: the two sets are disjoint contiguous runs; the train set is every *)
(* vector before the boundary; the holdout set is every vector from the boundary *)
(* up to test_end (tree strategy; later vectors are in neither set) or every     *)
(* remaining vector (sequence strategy).                                         *)
C9_SplitCoverage ==
    SplitMade =>
        /\ \A r \in 1..NRows(df) : ~(InTrain(r) /\ InTest(r))
        /\ Contiguous(InTrain) /\ Contiguous(InTest)
        /\ NRows(split.X_train) + NRows(split.X_test) <= NRows(df)
        /\ prog = "model" =>
              \A r \in 1..NRows(df) :
                 /\ InTrain(r) <=> df.index[r] < split.boundary[1]
                 /\ InTest(r) <=> (/\ df.index[r] >= split.boundary[1]
                                   /\ df.index[r] <= split.boundary[2])
        /\ prog = "nbeats" =>
              \A r \in 1..NRows(df) :
                 /\ InTrain(r) <=> r <= split.boundary[1]
                 /\ InTest(r) <=> r > split.boundary[1]

(* a train row, a holdout row and a later row that is in neither set *)
C9_Witness ==
    /\ SplitMade /\ prog = "model" /\ NRows(df) = 3
    /\ InTrain(1) /\ InTest(2) /\ ~InTrain(3) /\ ~InTest(3)

EmptyPartition == NRows(split.X_train) = 0 \/ NRows(split.X_test) = 0

(* C10: when the train or the holdout partition is empty the run fails, no model *)
(* is fitted and no prediction is produced.                                      *)
C10_EmptySplitFails ==
    (SplitMade /\ EmptyPartition) =>
        /\ ~model.fitted
        /\ y_pred = << >>
        /\ pc \in {"done", "failed"} => err # "none"

----------------------------------------------------------------------------
(* Degenerate inputs *)

(* C11: a model handle exists only for a train set of at least two rows; a fit   *)
(* on zero rows or one row fails.                                                *)
C11_FitNeedsTwoRows ==
    prog \in {"model", "nbeats"} =>
        /\ model.fitted => NRows(model.X) >= 2
        /\ (pc \in {"fitted", "done"} /\ SplitMade) => NRows(split.X_train) >= 2

BaseColumns == {"Close", "Volume", "datetime"}

(* C12: an empty bar sequence is rejected: no derived column is computed from it *)
(* and no later stage (features, lags, split, fit, predict) is reached with it.  *)
C12_EmptyInputRejected ==
    (pc # "start" /\ Len(bars) = 0) =>
        /\ \A k \in 1..Len(df.columns) : df.columns[k] \in BaseColumns
        /\ pc \in {"downloaded", "fetched", "done", "failed"}
        /\ pc \in {"done", "failed"} => err # "none"
        /\ split = NoSplit /\ ~model.fitted /\ y_pred = << >>

----------------------------------------------------------------------------
(* Technical indicators of main.py *)

MainHasRsi == prog = "main" /\ HasCol(df, "RSI")

(* C13: every defined RSI(14) value lies in [0, 100], and RSI is undefined at     *)
(* each of the first 14 positions.                                                *)
C13_RsiRange ==
    MainHasRsi =>
        \A i \in 1..Len(bars) :
            LET rsi == Col(df, "RSI")[i]
            IN  /\ i <= RsiWindow => IsNaN(rsi)
                /\ ~IsNaN(rsi) =>
                      /\ rsi[2] > 0
                      /\ 0 <= rsi[1] /\ rsi[1] <= 100 * rsi[2]

(* a value strictly inside the range at the first position that has one *)
C13_Witness ==
    /\ MainHasRsi /\ Len(bars) >= RsiWindow + 1
    /\ IsNaN(Col(df, "RSI")[RsiWindow])
    /\ GT(Col(df, "RSI")[RsiWindow + 1], Num(0))
    /\ LT(Col(df, "RSI")[RsiWindow + 1], Num(100))
    /\ Col(df, "RSI")[RsiWindow + 1] # Num(50)

(* no close of the window of bar i fell *)
NoLossInWindow(i) ==
    \A j \in (i - RsiWindow + 1)..i : bars[j].close >= bars[j - 1].close

(* C14: at every position with a full 14-bar window and a zero average loss, RSI  *)
(* is defined and equals 100, also when the average gain is 0.                    *)
C14_ZeroLossIs100 ==
    MainHasRsi =>
        \A i \in (RsiWindow + 1)..Len(bars) :
            NoLossInWindow(i) => Col(df, "RSI")[i] = Num(100)

MainDone == prog = "main" /\ pc = "done" /\ err = "none"

Alpha(span) == Rat(2, span + 1)

(* the recursion of the claim, from the fetched closes *)
RECURSIVE ExpectedEma(_, _)
ExpectedEma(span, i) ==
    IF i = 1 THEN Num(bars[1].close)
    ELSE Add(Mul(Alpha(span), Num(bars[i].close)),
             Mul(Sub(Num(1), Alpha(span)), ExpectedEma(span, i - 1)))

(* C15: EMA[0] = close[0], EMA[i] = a close[i] + (1-a) EMA[i-1], a = 2/(S+1);     *)
(* MACD = EMA12 - EMA26 and Signal = EMA9 of MACD have the input's length, are    *)
(* defined at every position, and MACD[0] = Signal[0] = 0.                        *)
C15_EmaRecursion ==
    MainDone =>
        LET ema  == Col(df, "EMA20")
            macd == Col(df, "MACD")
            sig  == Col(df, "Signal")
        IN  /\ Len(ema) = Len(bars) /\ Len(macd) = Len(bars) /\ Len(sig) = Len(bars)
            /\ ema[1] = Num(bars[1].close)
            /\ macd[1] = Num(0) /\ sig[1] = Num(0)
            /\ \A i \in 1..Len(bars) :
                  /\ ~IsNaN(ema[i]) /\ ~IsNaN(macd[i]) /\ ~IsNaN(sig[i])
                  /\ macd[i] = Sub(ExpectedEma(MacdFast, i), ExpectedEma(MacdSlow, i))
                  /\ i > 1 =>
                        /\ ema[i] = Add(Mul(Alpha(EmaSpan), Num(bars[i].close)),
                                        Mul(Sub(Num(1), Alpha(EmaSpan)), ema[i - 1]))
                        /\ sig[i] = Add(Mul(Alpha(SignalSpan), macd[i]),
                                        Mul(Sub(Num(1), Alpha(SignalSpan)), sig[i - 1]))

(* the closes move twice: EMA, MACD and Signal all leave their first values *)
C15_Witness ==
    /\ MainDone /\ Len(bars) >= 3
    /\ LET n == Len(bars)
       IN  /\ bars[n - 1].close # bars[1].close /\ bars[n].close # bars[n - 1].close
           /\ Col(df, "MACD")[n] # Num(0)
           /\ Col(df, "Signal")[n] # Col(df, "MACD")[n]
           /\ Col(df, "Signal")[n - 1] # Num(0)
           /\ Col(df, "EMA20")[n] # Num(bars[n].close)

----------------------------------------------------------------------------
(* C16, C17, C18: two runs, the caller's table, the holdout rows *)

SecondRunOver == hist.run = 2 /\ pc \in {"done", "failed"}

(* C16: running a forecasting script twice on the same bars, the same number *)
(* of lags and the same test window ends both runs in the same way, with     *)
(* the same table and the same predictions.                                  *)
C16_Idempotent ==
    (SecondRunOver /\ bars = hist.bars) =>
        /\ pc = hist.pc
        /\ err = hist.err
        /\ df = hist.df
        /\ y_pred = hist.y_pred

Fetched(b) == IF prog = "nbeats" THEN NbMakeTable(b) ELSE MakeTable(b)

AfterFeatureStage ==
    /\ prog \in {"model", "nbeats"}
    /\ pc \in {"features", "lagged", "split", "fitted", "done", "failed"}
    /\ Len(bars) > 0

(* C17: once add_buy_sell_features and create_lag_features have returned,    *)
(* the table the script handed to them still has the rows, the columns and   *)
(* the values it was fetched with.                                           *)
C17_CallerTableUntouched == AfterFeatureStage => df = Fetched(bars)

TrainPart(t, k) == Rows(t, [i \in 1..NRows(t) |-> i <= k])

TrainBefore(t, test_start) == Rows(t, TrainMask(t, test_start))

(* the standardised value d / sqrt(v) of two cells <<d, v>> is the same *)
Unit(v) == IF v = Num(0) THEN Num(1) ELSE v

SameScaled(a, b) ==
    /\ GT(a[1], Num(0)) <=> GT(b[1], Num(0))
    /\ LT(a[1], Num(0)) <=> LT(b[1], Num(0))
    /\ Sub(Mul(Mul(a[1], a[1]), Unit(b[2])), Mul(Mul(b[1], b[1]), Unit(a[2]))) = Num(0)

SameScaledTable(t, u) ==
    /\ t.columns = u.columns
    /\ NRows(t) = NRows(u)
    /\ \A k \in 1..Len(t.columns) : \A i \in 1..NRows(t) :
          SameScaled(t.data[k][i], u.data[k][i])

BothFitted == hist.run = 2 /\ model.fitted /\ hist.model.fitted

(* C18: when two runs have tables of the same length that agree on every     *)
(* train row, fit is handed the same feature matrix and the same label       *)
(* vector in both, standardisation included.                                 *)
C18_HoldoutWithheld ==
    /\ (prog = "model" /\ BothFitted
          /\ TrainBefore(df, split.boundary[1]) = TrainBefore(hist.df, hist.boundary[1]))
       => (model.X = hist.model.X /\ model.y = hist.model.y)
    /\ (prog = "nbeats" /\ BothFitted /\ NRows(df) = NRows(hist.df)
          /\ TrainPart(df, split.boundary[1]) = TrainPart(hist.df, hist.boundary[1]))
       => (SameScaledTable(model.X, hist.model.X) /\ SameScaledTable(model.y, hist.model.y))

====
